---------------------------- MODULE Spec2Model ----------------------------
(***************************************************************************)
(* The resilient paginated fetch engine of src/rickandmorty.py:            *)
(* fetcher (the attempt loop), fetch_page, the generator iter_pages and    *)
(* main, driven by a caller that pulls batches and by an HTTP server that  *)
(* answers each GET with a transport error or with a response.             *)
(*                                                                         *)
(* Durations are in milliseconds (0.5 s = 500).  A page reference is the   *)
(* tuple <<"page", n>>; None is the empty tuple.                           *)
(***************************************************************************)
EXTENDS Integers, Sequences, FiniteSets, TLC

(* ------------------------------ bounds -------------------------------- *)
\* pages the server can publish
NPages == 2
\* largest tries argument of a direct fetcher call
MaxTries == 3
\* largest max_pages argument of iter_pages
MaxCap == 2
\* fetcher calls one iter_pages run may make before the model stops it
MaxFetches == 3

(* ----------------------------- constants ------------------------------ *)
RETRY_CODES == {429, 504, 503, 502, 501}
DefaultTries == 3
DefaultBackoff == 500

None == <<>>
PageRef(n) == <<"page", n>>
Refs == {PageRef(n) : n \in 1..NPages}
\* urljoin(base_url.rstrip("/") + "/", path.lstrip("/"))
BaseUrl == <<"base_url/path">>

(* ------------------------- the server's answers ----------------------- *)
\* The decoded JSON document of a body: which keys it has, and their values.
Doc(hasInfo, hasResults, hasNext, results, next) ==
    [info |-> hasInfo, results |-> hasResults, next |-> hasNext,
     items |-> results, nextRef |-> next]
ErrorDoc == Doc(FALSE, FALSE, FALSE, <<>>, None)
JsonBody(d) == [json |-> TRUE, doc |-> d]
NotJson == [json |-> FALSE, doc |-> ErrorDoc]

\* The records of page n: page 1 holds two, every other page one.
PageItems(n) == IF n = 1 THEN << <<n, 1>>, <<n, 2>> >> ELSE << <<n, 1>> >>

\* What the server may publish as page n: a well-formed page (its items or
\* none, any continuation), or a document that lacks a required key.
PageDocs(n) ==
    {Doc(TRUE, TRUE, TRUE, r, nx) : r \in {<<>>, PageItems(n)}, nx \in {None} \cup Refs}
    \cup {Doc(FALSE, TRUE, FALSE, PageItems(n), None),
          Doc(TRUE, FALSE, TRUE, <<>>, None),
          Doc(TRUE, TRUE, FALSE, PageItems(n), None)}

Statuses == {200, 404, 503}
Transport == [transport |-> TRUE, status |-> 0, body |-> NotJson]
Response(s, b) == [transport |-> FALSE, status |-> s, body |-> b]
Unbound == [transport |-> FALSE, status |-> 0, body |-> NotJson]

\* session.get(url, params=params): the page a request addresses.  A
\* continuation reference names its page; the base endpoint is paged by the
\* `page` query parameter.
Resolve(u, p) == IF u = BaseUrl THEN p.page ELSE u[2]

VARIABLES
    \* the caller's arguments to iter_pages, and the --tries of the command
    \* line (args.tries)
    base_params, start_page, max_pages, args_tries,
    \* the server: the document published so far for each page
    server,
    \* iter_pages: the generator's position and locals
    gen, items, next_url, pages_fetched, error,
    \* what the caller has been handed, and the fetcher calls made
    yielded, fetches,
    \* fetcher: arguments, locals and position
    url, params, tries, initial_backoff, attempt, backoff, response, last_exc,
    fpc, result,
    \* fetcher: the GETs issued, the sleeps taken and the attempt outcomes
    \* of the current call
    gets, sleeps, outcomes

callVars == <<base_params, start_page, max_pages, args_tries>>
genVars == <<gen, items, next_url, pages_fetched, error, yielded, fetches>>
fetcherVars == <<url, params, tries, initial_backoff, attempt, backoff, response,
                 last_exc, fpc, result, gets, sleeps, outcomes>>
vars == <<callVars, server, genVars, fetcherVars>>

NoResult == [kind |-> "none", err |-> "", status |-> 0, doc |-> ErrorDoc]
Returned(d) == [kind |-> "return", err |-> "", status |-> 0, doc |-> d]
Raised(e, s) == [kind |-> "raise", err |-> e, status |-> s, doc |-> ErrorDoc]

(* ------------------------------ fetcher ------------------------------- *)
\* response.raise_for_status() raises for a 4xx or 5xx status.
RaisesForStatus(s) == s >= 400 /\ s < 600

\* NextIteration with the range one too long: range(1, tries + 2).
NextIterationOneMore(att, t) ==
    IF att <= t THEN [fpc |-> "get", attempt |-> att + 1]
    ELSE [fpc |-> "after_loop", attempt |-> att]

\* for attempt in range(1, tries + 1): the position after an iteration that
\* ran to its end or hit `continue`.
NextIteration(att, t) ==
    IF att < t THEN [fpc |-> "get", attempt |-> att + 1]
    ELSE [fpc |-> "after_loop", attempt |-> att]

\* The except block of the loop, for a transport exception in attempt att
\* with backoff b, resp being what the local `response` holds: what it does
\* next, the sleeps it takes, and the backoff it leaves.
ExceptBlock(att, t, b, resp) ==
    IF att = t
    THEN [next |-> "raise", err |-> "Transport", status |-> 0,
          slept |-> <<>>, backoff |-> b]
    ELSE IF resp = Unbound
    THEN [next |-> "raise", err |-> "UnboundLocalError", status |-> 0,
          slept |-> <<b>>, backoff |-> 2 * b]
    ELSE IF resp.status \in RETRY_CODES
    THEN [next |-> "continue", err |-> "", status |-> 0,
          slept |-> <<b, 2 * b>>, backoff |-> 4 * b]
    ELSE IF RaisesForStatus(resp.status)
    THEN [next |-> "raise", err |-> "HTTPError", status |-> resp.status,
          slept |-> <<b>>, backoff |-> 2 * b]
    ELSE [next |-> "continue", err |-> "", status |-> 0,
          slept |-> <<b>>, backoff |-> 2 * b]

\* return response.json()
ReturnValue(resp) ==
    IF resp = Unbound THEN Raised("UnboundLocalError", 0)
    ELSE IF resp.body.json THEN Returned(resp.body.doc)
    ELSE Raised("JSONDecodeError", 0)

\* fetcher(session, u, p, tries=t, initial_backoff=b) is entered.
CallFetcher(u, p, t, b) ==
    /\ url' = u
    /\ params' = p
    /\ tries' = t
    /\ initial_backoff' = b
    /\ backoff' = b
    /\ last_exc' = None
    /\ attempt' = 1
    /\ response' = Unbound
    /\ fpc' = IF t >= 1 THEN "get" ELSE "after_loop"
    /\ result' = NoResult
    /\ gets' = 0
    /\ sleeps' = <<>>
    /\ outcomes' = <<>>

\* The answers the server may give to a GET of page n, each with the server
\* it leaves: a page is published the first time it is served and stays.
Answers(n) ==
    {[outcome |-> Transport, server |-> server]}
    \cup {[outcome |-> Response(s, b), server |-> server] :
             s \in Statuses \ {200}, b \in {NotJson, JsonBody(ErrorDoc)}}
    \cup {[outcome |-> Response(200, NotJson), server |-> server]}
    \cup IF n \in DOMAIN server
         THEN {[outcome |-> Response(200, JsonBody(server[n])), server |-> server]}
         ELSE {[outcome |-> Response(200, JsonBody(d)),
                server |-> [m \in DOMAIN server \cup {n} |->
                               IF m = n THEN d ELSE server[m]]] :
                   d \in PageDocs(n)}

\* response = session.get(url, params=params, timeout=timeout), and, when
\* it raises nothing, the end of the iteration.
Get ==
    /\ fpc = "get"
    /\ \E a \in Answers(Resolve(url, params)) :
          /\ server' = a.server
          /\ gets' = gets + 1
          /\ outcomes' = Append(outcomes, a.outcome)
          /\ IF a.outcome.transport
             THEN /\ fpc' = "except"
                  /\ UNCHANGED <<response, attempt>>
             ELSE /\ response' = a.outcome
                  /\ fpc' = NextIteration(attempt, tries).fpc
                  /\ attempt' = NextIteration(attempt, tries).attempt
    /\ UNCHANGED <<url, params, tries, initial_backoff, backoff, last_exc, result, sleeps>>
    /\ UNCHANGED <<callVars, genVars>>

\* except (ConnectionError, Timeout, ReadTimeout) as e: ...
Except ==
    /\ fpc = "except"
    /\ LET x == ExceptBlock(attempt, tries, backoff, response) IN
          /\ last_exc' = "transport"
          /\ sleeps' = sleeps \o x.slept
          /\ backoff' = x.backoff
          /\ IF x.next = "raise"
             THEN /\ fpc' = "raised"
                  /\ result' = Raised(x.err, x.status)
                  /\ UNCHANGED attempt
             ELSE /\ fpc' = NextIteration(attempt, tries).fpc
                  /\ attempt' = NextIteration(attempt, tries).attempt
                  /\ UNCHANGED result
    /\ UNCHANGED <<url, params, tries, initial_backoff, response, gets, outcomes>>
    /\ UNCHANGED <<callVars, server, genVars>>

\* return response.json()
Return ==
    /\ fpc = "after_loop"
    /\ result' = ReturnValue(response)
    /\ fpc' = IF ReturnValue(response).kind = "return" THEN "returned" ELSE "raised"
    /\ UNCHANGED <<url, params, tries, initial_backoff, attempt, backoff, response,
                   last_exc, gets, sleeps, outcomes>>
    /\ UNCHANGED <<callVars, server, genVars>>

(* --------------------- a direct call of fetcher ----------------------- *)
InitFetcher ==
    /\ base_params = None
    /\ start_page = 1
    /\ max_pages = None
    /\ args_tries = DefaultTries
    /\ server = <<>>
    /\ gen = "direct"
    /\ items = <<>>
    /\ next_url = None
    /\ pages_fetched = 0
    /\ error = ""
    /\ yielded = <<>>
    /\ fetches = 1
    /\ url \in Refs
    /\ params = None
    /\ tries \in 1..MaxTries
    /\ initial_backoff \in {DefaultBackoff, 2 * DefaultBackoff}
    /\ backoff = initial_backoff
    /\ last_exc = None
    /\ attempt = 1
    /\ response = Unbound
    /\ fpc = "get"
    /\ result = NoResult
    /\ gets = 0
    /\ sleeps = <<>>
    /\ outcomes = <<>>

NextFetcher == Get \/ Except \/ Return

SpecFetcher == InitFetcher /\ [][NextFetcher]_vars

\* The call runs on: a GET comes back or raises within its timeout, a sleep
\* ends, and the interpreter takes the next statement.
SpecFetcherFair == SpecFetcher /\ WF_vars(NextFetcher)

(* ---------------------- fetch_page and iter_pages --------------------- *)
\* params = dict(base_params or {}); params['page'] = page_number
PageParams(bp, n) ==
    [k \in DOMAIN bp \cup {"page"} |-> IF k = "page" THEN n ELSE bp[k]]

\* PagePart with the continuation never read: next_url stays None.
PagePartNoNext(res) ==
    [ok |-> res.kind = "return" /\ res.doc.info /\ res.doc.results /\ res.doc.next,
     err |-> IF res.kind = "raise" THEN res.err ELSE "TypeError",
     items |-> res.doc.items, next |-> None]

\* What fetch_page and iter_pages make of the fetcher's result: the error
\* that leaves the generator, or the items and the continuation.
\*   if 'info' not in data or 'results' not in data: raise "Missing ..."
\*   items = data['results']; next_url = data['info']['next']
PagePart(res) ==
    IF res.kind = "raise"
    THEN [ok |-> FALSE, err |-> res.err, items |-> <<>>, next |-> None]
    ELSE IF ~res.doc.info \/ ~res.doc.results
    THEN [ok |-> FALSE, err |-> "TypeError", items |-> <<>>, next |-> None]
    ELSE IF ~res.doc.next
    THEN [ok |-> FALSE, err |-> "KeyError", items |-> <<>>, next |-> None]
    ELSE [ok |-> TRUE, err |-> "", items |-> res.doc.items, next |-> res.doc.nextRef]

\* if max_pages is not None and pages_fetched >= max_pages
CapReached(mp, n) == mp # None /\ n >= mp[1]

\* BaseParamsAfter with params aliasing the caller's mapping
\* (params = base_params or {}): the `page` entry lands in it.
BaseParamsAliased(bp, n) == PageParams(bp, n)

\* The caller's mapping after fetch_page(..., n, bp): dict(...) copies, so
\* the assignment params['page'] = n leaves it as it was.
BaseParamsAfter(bp, n) == bp

\* The caller's first next(): iter_pages runs from its start into
\* fetch_page, which calls fetcher for the starting page.
PullFirst ==
    /\ gen = "created"
    /\ gen' = "fetch_first"
    /\ fetches' = fetches + 1
    /\ CallFetcher(BaseUrl, PageParams(base_params, start_page),
                   DefaultTries, DefaultBackoff)
    /\ base_params' = BaseParamsAfter(base_params, start_page)
    /\ UNCHANGED <<items, next_url, pages_fetched, error, yielded>>
    /\ UNCHANGED <<start_page, max_pages, args_tries, server>>

\* NotItems with the test dropped, and with the test always taken.
NotItemsNever(its) == FALSE
NotItemsAlways(its) == TRUE

\* if not items: break
NotItems(its) == its = <<>>

\* PageFetched with the next page requested ahead of the caller: after the
\* batch is handed over, the fetcher call for its `next` is already entered.
PageFetchedPrefetch ==
    /\ gen \in {"fetch_first", "fetch_next"}
    /\ fpc \in {"returned", "raised"}
    /\ LET p == PagePart(result) IN
          IF ~p.ok
          THEN /\ gen' = "failed"
               /\ error' = p.err
               /\ UNCHANGED <<items, next_url, pages_fetched, yielded, fetcherVars>>
          ELSE /\ items' = p.items
               /\ next_url' = p.next
               /\ pages_fetched' = IF gen = "fetch_first" THEN 0 ELSE pages_fetched
               /\ gen' = IF NotItems(p.items) THEN "done" ELSE "suspended"
               /\ yielded' = IF NotItems(p.items) THEN yielded
                             ELSE Append(yielded, p.items)
               /\ IF NotItems(p.items) \/ p.next = None
                  THEN UNCHANGED fetcherVars
                  ELSE CallFetcher(p.next, None, DefaultTries, DefaultBackoff)
               /\ UNCHANGED error
    /\ UNCHANGED <<fetches, callVars, server>>

\* The fetcher call of the generator has ended: the rest of fetch_page (or
\* of the loop body), then the top of the loop: stop on an empty page, else
\* yield the batch.
PageFetched ==
    /\ gen \in {"fetch_first", "fetch_next"}
    /\ fpc \in {"returned", "raised"}
    /\ LET p == PagePart(result) IN
          IF ~p.ok
          THEN /\ gen' = "failed"
               /\ error' = p.err
               /\ UNCHANGED <<items, next_url, pages_fetched, yielded>>
          ELSE /\ items' = p.items
               /\ next_url' = p.next
               /\ pages_fetched' = IF gen = "fetch_first" THEN 0 ELSE pages_fetched
               /\ gen' = IF NotItems(p.items) THEN "done" ELSE "suspended"
               /\ yielded' = IF NotItems(p.items) THEN yielded
                             ELSE Append(yielded, p.items)
               /\ UNCHANGED error
    /\ UNCHANGED <<fetches, callVars, server, fetcherVars>>

\* PagesFetchedInc with the increment forgotten.
PagesFetchedKept(n) == n

\* pages_fetched += 1
PagesFetchedInc(n) == n + 1

\* DefaultParams with the caller's parameters and a page number merged in,
\* as for the starting page.
DefaultParamsMerged == PageParams(base_params, start_page + pages_fetched + 1)

\* params: dict | None = None, the default that fetcher(session, next_url)
\* takes.
DefaultParams == None

\* The caller's next() on the suspended generator: count the page, stop at
\* the cap or at a null continuation, else call fetcher for next_url.
PullNext ==
    /\ gen = "suspended"
    /\ pages_fetched' = PagesFetchedInc(pages_fetched)
    /\ IF CapReached(max_pages, PagesFetchedInc(pages_fetched)) \/ next_url = None
       THEN /\ gen' = "done"
            /\ UNCHANGED <<fetches, fetcherVars>>
       ELSE /\ fetches < MaxFetches
            /\ gen' = "fetch_next"
            /\ fetches' = fetches + 1
            /\ CallFetcher(next_url, DefaultParams, DefaultTries, DefaultBackoff)
    /\ UNCHANGED <<items, next_url, error, yielded>>
    /\ UNCHANGED <<callVars, server>>

BaseParams == {None, [name |-> "rick", page |-> 9]}
Caps == {None} \cup {<<n>> : n \in 0..MaxCap}

Init ==
    /\ base_params \in BaseParams
    /\ start_page \in 1..NPages
    /\ max_pages \in Caps
    /\ args_tries = DefaultTries
    /\ server = <<>>
    /\ gen = "created"
    /\ items = <<>>
    /\ next_url = None
    /\ pages_fetched = 0
    /\ error = ""
    /\ yielded = <<>>
    /\ fetches = 0
    /\ url = None
    /\ params = None
    /\ tries = DefaultTries
    /\ initial_backoff = DefaultBackoff
    /\ backoff = DefaultBackoff
    /\ last_exc = None
    /\ attempt = 1
    /\ response = Unbound
    /\ fpc = "idle"
    /\ result = NoResult
    /\ gets = 0
    /\ sleeps = <<>>
    /\ outcomes = <<>>

Next == PullFirst \/ Get \/ Except \/ Return \/ PageFetched \/ PullNext

Spec == Init /\ [][Next]_vars

(* ------------------ a caller that keeps on pulling -------------------- *)
\* For runs without end the counters are kept finite: pages_fetched stops at
\* MaxCap + 1, beyond every cap it is compared with, and the record of
\* fetcher calls and of batches stops growing at MaxFetches.
UpTo(n, limit) == IF n > limit THEN limit ELSE n

\* PageFetched, the record of batches kept finite.
PageFetchedOn ==
    /\ gen \in {"fetch_first", "fetch_next"}
    /\ fpc \in {"returned", "raised"}
    /\ LET p == PagePart(result) IN
          IF ~p.ok
          THEN /\ gen' = "failed"
               /\ error' = p.err
               /\ UNCHANGED <<items, next_url, pages_fetched, yielded>>
          ELSE /\ items' = p.items
               /\ next_url' = p.next
               /\ pages_fetched' = IF gen = "fetch_first" THEN 0 ELSE pages_fetched
               /\ gen' = IF NotItems(p.items) THEN "done" ELSE "suspended"
               /\ yielded' = IF NotItems(p.items) \/ Len(yielded) >= MaxFetches
                             THEN yielded
                             ELSE Append(yielded, p.items)
               /\ UNCHANGED error
    /\ UNCHANGED <<fetches, callVars, server, fetcherVars>>

\* PullNext, with no limit on the fetcher calls of the run.
PullNextOn ==
    /\ gen = "suspended"
    /\ pages_fetched' = UpTo(PagesFetchedInc(pages_fetched), MaxCap + 1)
    /\ IF CapReached(max_pages, PagesFetchedInc(pages_fetched)) \/ next_url = None
       THEN /\ gen' = "done"
            /\ UNCHANGED <<fetches, fetcherVars>>
       ELSE /\ gen' = "fetch_next"
            /\ fetches' = UpTo(fetches + 1, MaxFetches)
            /\ CallFetcher(next_url, DefaultParams, DefaultTries, DefaultBackoff)
    /\ UNCHANGED <<items, next_url, error, yielded>>
    /\ UNCHANGED <<callVars, server>>

NextOn == PullFirst \/ Get \/ Except \/ Return \/ PageFetchedOn \/ PullNextOn

\* The caller keeps requesting batches (the `for` loop of main), every GET
\* comes back or times out, every sleep ends.
SpecKeepPulling == Init /\ [][NextOn]_vars /\ WF_vars(NextOn)

(* ------------------------- the command line: main --------------------- *)
\* page_items, next_link = fetch_page(session, args.base_url, args.path,
\* args.page): the single-page mode enters fetch_page, which calls fetcher.
MainFetchPage ==
    /\ gen = "main_single"
    /\ gen' = "fetch_single"
    /\ fetches' = fetches + 1
    /\ CallFetcher(BaseUrl, PageParams(base_params, start_page),
                   DefaultTries, DefaultBackoff)
    /\ base_params' = BaseParamsAfter(base_params, start_page)
    /\ UNCHANGED <<items, next_url, pages_fetched, error, yielded>>
    /\ UNCHANGED <<start_page, max_pages, args_tries, server>>

\* The rest of fetch_page, then the three prints of the single-page mode:
\* page_items[0]['name'] raises IndexError on a page without items.
MainPageFetched ==
    /\ gen = "fetch_single"
    /\ fpc \in {"returned", "raised"}
    /\ LET p == PagePart(result) IN
          IF ~p.ok
          THEN /\ gen' = "failed"
               /\ error' = p.err
               /\ UNCHANGED <<items, next_url>>
          ELSE /\ items' = p.items
               /\ next_url' = p.next
               /\ gen' = IF p.items = <<>> THEN "failed" ELSE "done"
               /\ error' = IF p.items = <<>> THEN "IndexError" ELSE error
    /\ UNCHANGED <<pages_fetched, yielded, fetches, callVars, server, fetcherVars>>

\* args = parse_cli(argv): --tries, --page and --max-pages are integers, and
\* --all chooses between iter_pages (with base_params = None) and fetch_page.
InitMain ==
    /\ base_params = None
    /\ start_page \in 1..NPages
    /\ max_pages \in {<<n>> : n \in 0..MaxCap}
    /\ args_tries \in 1..MaxTries
    /\ server = <<>>
    /\ gen \in {"created", "main_single"}
    /\ items = <<>>
    /\ next_url = None
    /\ pages_fetched = 0
    /\ error = ""
    /\ yielded = <<>>
    /\ fetches = 0
    /\ url = None
    /\ params = None
    /\ tries = DefaultTries
    /\ initial_backoff = DefaultBackoff
    /\ backoff = DefaultBackoff
    /\ last_exc = None
    /\ attempt = 1
    /\ response = Unbound
    /\ fpc = "idle"
    /\ result = NoResult
    /\ gets = 0
    /\ sleeps = <<>>
    /\ outcomes = <<>>

NextMain ==
    \/ PullFirst \/ Get \/ Except \/ Return \/ PageFetched \/ PullNext
    \/ MainFetchPage \/ MainPageFetched

SpecMain == InitMain /\ [][NextMain]_vars

(* ======================= fetcher: the attempt loop ==================== *)
\* The classification of an attempt's outcome the claims speak of.
IsSuccess(o) == ~o.transport /\ o.status < 400 /\ o.body.json
IsRetryable(o) == o.transport \/ o.status \in RETRY_CODES
IsFatal(o) == ~o.transport /\ o.status >= 400 /\ o.status \notin RETRY_CODES
Finished == fpc \in {"returned", "raised"}

\* initial_backoff * 2^(i-1)
RECURSIVE Delay(_, _)
Delay(i, b) == IF i <= 1 THEN b ELSE 2 * Delay(i - 1, b)

\* C1: once an attempt has received a Success response, no further GET is
\* issued in the call, and the call ends by returning that attempt's payload.
C1_ReturnsOnFirstSuccess ==
    \A i \in 1..Len(outcomes) :
        IsSuccess(outcomes[i]) =>
            /\ Len(outcomes) = i
            /\ fpc # "raised"
            /\ (fpc = "returned" => result = Returned(outcomes[i].body.doc))

\* C2: an attempt that receives a status >= 400 outside RETRY_CODES is the
\* call's last GET; the call ends in an HTTP status error of that status and
\* never returns, and no sleep is taken for it (none at all on attempt 1).
C2_FatalStatusFailsAtOnce ==
    \A i \in 1..Len(outcomes) :
        IsFatal(outcomes[i]) =>
            /\ Len(outcomes) = i
            /\ fpc # "returned"
            /\ (fpc = "raised" =>
                   result.err = "HTTPError" /\ result.status = outcomes[i].status)
            /\ (i = 1 => sleeps = <<>>)

\* C3: a call whose every attempt ended in a retryable failure ends by
\* raising, after exactly `tries` GETs, and never issues more than `tries`.
C3_ExhaustionRaises ==
    /\ gets <= tries
    /\ (Finished /\ \A i \in 1..Len(outcomes) : IsRetryable(outcomes[i])) =>
           (fpc = "raised" /\ gets = tries)

\* C4: when the first k attempts are retryable failures and attempt k+1 is a
\* Success, the call returns attempt k+1's payload after exactly k sleeps,
\* the i-th lasting initial_backoff * 2^(i-1).
C4_BackoffBetweenAttempts ==
    \A k \in 0..(Len(outcomes) - 1) :
        ( /\ Finished
          /\ \A i \in 1..k : IsRetryable(outcomes[i])
          /\ IsSuccess(outcomes[k + 1]) ) =>
            /\ result = Returned(outcomes[k + 1].body.doc)
            /\ sleeps = [i \in 1..k |-> Delay(i, initial_backoff)]

\* C5: a transport error on an attempt before the last never ends the call
\* with an error: the call raises on a transport-failed attempt only when
\* that attempt is attempt `tries`.
C5_TransportErrorRetried ==
    (fpc = "raised" /\ outcomes # <<>> /\ outcomes[Len(outcomes)].transport) =>
        Len(outcomes) = tries

\* C6: what the except block does after a transport exception is the same
\* whatever the local `response` holds (the response of an earlier attempt,
\* or nothing): it depends on the attempt index alone.
StaleResponses ==
    {Unbound} \cup {Response(s, b) : s \in Statuses, b \in {NotJson, JsonBody(ErrorDoc)}}
C6_NoStaleResponseRead ==
    fpc = "except" =>
        \A r \in StaleResponses :
            ExceptBlock(attempt, tries, backoff, r)
                = ExceptBlock(attempt, tries, backoff, response)

(* ============================= iter_pages ============================= *)
\* C7: with max_pages = N >= 0 the caller is handed at most N batches.
C7_AtMostCapBatches ==
    max_pages # None => Len(yielded) <= max_pages[1]

\* The fetcher call last made has been handed to the generator as a page
\* with both required keys.
LastPageTaken ==
    /\ gen \in {"suspended", "done"}
    /\ PagePart(result).ok

\* C8: a fetched page with no items ends the iteration: no batch is yielded
\* for it (every earlier fetch yielded one, no batch is empty), and no
\* further fetch follows, whatever its `next`.
C8_EmptyPageStops ==
    /\ \A i \in 1..Len(yielded) : yielded[i] # <<>>
    /\ (LastPageTaken /\ PagePart(result).items = <<>>) =>
           (gen = "done" /\ Len(yielded) = fetches - 1)

\* C8 witness: a later page came back empty with a non-null `next`, and the
\* iteration ended there.
C8_Witness ==
    /\ LastPageTaken
    /\ PagePart(result).items = <<>>
    /\ PagePart(result).next # None
    /\ gen = "done"
    /\ fetches = 2
    /\ Len(yielded) = 1

\* The pages the server has published, walked from page n along `next`
\* while they are well-formed and non-empty.
RECURSIVE Walk(_, _)
Walk(n, fuel) ==
    IF fuel = 0 \/ n \notin DOMAIN server THEN <<>>
    ELSE IF ~(server[n].info /\ server[n].results /\ server[n].next)
            \/ server[n].items = <<>>
    THEN <<>>
    ELSE IF server[n].nextRef = None THEN <<n>>
    ELSE <<n>> \o Walk(server[n].nextRef[2], fuel - 1)
Chain == Walk(start_page, NPages)
\* The walk is a chain p1 -> ... -> pk that ends in a null `next`.
ChainEndsInNull == Chain # <<>> /\ server[Chain[Len(Chain)]].nextRef = None
ChainBatches == [i \in 1..Len(Chain) |-> server[Chain[i]].items]
\* The walk stops at a `next` whose page the server has not been asked for.
ChainOpen ==
    /\ Chain # <<>>
    /\ server[Chain[Len(Chain)]].nextRef # None
    /\ server[Chain[Len(Chain)]].nextRef[2] \notin DOMAIN server

\* C9: uncapped, against a chain p1 -> ... -> pk of non-empty pages ending
\* in a null `next`: the batches handed out are always the first pages'
\* items in chain order, one fetcher call per page; the iteration never ends
\* on a page whose `next` it has not followed, and when it has ended the
\* batches are exactly the k pages' items after exactly k calls.
C9_ChainYieldedInOrder ==
    max_pages = None =>
        /\ (gen = "done" => ~ChainOpen)
        /\ ChainEndsInNull =>
              /\ Len(yielded) <= Len(Chain)
              /\ yielded = SubSeq(ChainBatches, 1, Len(yielded))
              /\ fetches <= Len(Chain)
              /\ (gen = "done" => yielded = ChainBatches /\ fetches = Len(Chain))

\* C9 witness: page 1 = ([a, b], next = page 2), page 2 = ([c], null);
\* the run has ended having yielded [a, b] then [c].
C9_Witness ==
    /\ max_pages = None
    /\ start_page = 1
    /\ ChainEndsInNull
    /\ gen = "done"
    /\ yielded = <<PageItems(1), PageItems(2)>>
    /\ Len(yielded[1]) + Len(yielded[2]) = 3
    /\ fetches = 2

\* The starting page has been handed to the generator as a well-formed page.
StartPageTaken ==
    /\ \/ gen \in {"suspended", "fetch_next", "done"}
       \/ (gen = "failed" /\ fetches >= 2)
    /\ start_page \in DOMAIN server

\* C10 as stated: a starting page whose `next` is null gives exactly one
\* batch after exactly one fetch.
C10_NullNextOneBatch ==
    (StartPageTaken /\ server[start_page].nextRef = None) =>
        (Len(yielded) = 1 /\ fetches = 1)

\* C10 amended: a starting page with at least one item whose `next` is null
\* gives exactly one batch after exactly one fetch.
C10_NullNextNonEmptyOneBatch ==
    (StartPageTaken /\ server[start_page].nextRef = None
        /\ server[start_page].items # <<>>) =>
        (Len(yielded) = 1 /\ fetches = 1)

\* C10 witness: the run has ended on a non-empty starting page with a null
\* `next`.
C10_Witness ==
    /\ StartPageTaken
    /\ server[start_page].nextRef = None
    /\ server[start_page].items # <<>>
    /\ gen = "done"
    /\ Len(yielded) = 1
    /\ fetches = 1

\* A fetcher call is under way: a GET, its handling or the return is next.
FetcherRunning == fpc \in {"get", "except", "after_loop"}

\* C11: iter_pages is pull-based: before the caller's first request no GET
\* and no fetcher call has been made, and while the generator waits for the
\* caller (a batch handed over, or the iteration over) no fetcher call is
\* under way and none has been made for a page after the last batch.
C11_PullBased ==
    /\ gen = "created" => (gets = 0 /\ fetches = 0 /\ ~FetcherRunning)
    /\ gen \in {"suspended", "done", "failed"} => ~FetcherRunning
    /\ gen = "suspended" => fetches = Len(yielded)

\* C11 witness: the first batch is with the caller, its page names a next
\* page and the cap leaves room for it, and nothing is being fetched.
C11_Witness ==
    /\ gen = "suspended"
    /\ Len(yielded) = 1
    /\ next_url # None
    /\ ~CapReached(max_pages, 1)
    /\ fetches = 1
    /\ ~FetcherRunning

\* C13: a returned payload that lacks a required key makes the generator
\* fail with the one protocol error kind, no batch being yielded for that
\* page.
C13_MissingKeyIsProtocolError ==
    (gen = "failed" /\ result.kind = "return") =>
        (error = "ProtocolError" /\ Len(yielded) = fetches - 1)

\* C14: a payload that fetcher returns was decoded from the response of a
\* request that was answered with a status < 400.
C14_PayloadFromOkResponse ==
    fpc = "returned" =>
        /\ ~response.transport
        /\ response.status < 400
        /\ result = Returned(response.body.doc)

\* C15: a fetcher call for a page after the first has as its URL the `next`
\* of the page whose batch was yielded last, as the server gave it, and has
\* no query parameters.
C15_NextFetchedVerbatim ==
    gen = "fetch_next" =>
        /\ url = next_url
        /\ url = server[items[1][1]].nextRef
        /\ url # None
        /\ params = None

\* C15 witness: the caller passed base_params, and a GET for page 2, reached
\* through page 1's `next`, has been issued.
C15_Witness ==
    /\ gen = "fetch_next"
    /\ base_params # None
    /\ start_page = 1
    /\ url = PageRef(2)
    /\ gets >= 1

\* C18 as stated: pages_fetched equals the number of batches yielded, and the
\* fetcher calls made are at most that number plus one.
C18_CounterEqualsBatches ==
    /\ pages_fetched = Len(yielded)
    /\ fetches <= Len(yielded) + 1

\* C18 amended: pages_fetched equals the number of batches yielded except
\* while the generator is suspended at the yield, where it is one less; the
\* fetcher calls made are at most the batches yielded plus one.
C18_CounterLagsAtYield ==
    /\ pages_fetched = Len(yielded) - (IF gen = "suspended" THEN 1 ELSE 0)
    /\ fetches <= Len(yielded) + 1

\* C18 witness: the second page is being fetched after one batch was counted.
C18_Witness ==
    /\ gen = "fetch_next"
    /\ pages_fetched = 1
    /\ Len(yielded) = 1
    /\ fetches = 2

\* C19: fetch_page leaves the caller's base_params as it was, and requests
\* with every entry of base_params except that `page` is page_number.
C19_BaseParamsUntouched ==
    /\ base_params \in BaseParams
    /\ gen = "fetch_first" =>
          /\ DOMAIN params = DOMAIN base_params \cup {"page"}
          /\ params.page = start_page
          /\ \A k \in DOMAIN base_params \ {"page"} : params[k] = base_params[k]

\* C19 witness: the caller's mapping holds its own `page` entry, 9, while
\* the starting page is requested with page = start_page.
C19_Witness ==
    /\ gen = "fetch_first"
    /\ base_params # None
    /\ base_params.page = 9
    /\ params.page = start_page
    /\ gets >= 1

\* The attempt index is within 1..tries, the n-th GET is the GET of attempt
\* n, and no more than `tries` GETs are issued.
AttemptsInOrder ==
    /\ attempt \in 1..tries
    /\ gets <= tries
    /\ Len(outcomes) = gets
    /\ fpc = "get" => gets = attempt - 1
    /\ fpc = "except" => gets = attempt
    /\ fpc = "after_loop" => gets = tries

\* C16: in every fetcher call the attempt index stays within 1..tries, the
\* attempts are made one at a time in increasing order, at most `tries` GETs
\* are issued, and the call ends: it returns or raises.
C16_BoundedAttemptsAndEnd == []AttemptsInOrder /\ <>Finished

\* C16 witness: a call of at least two attempts has returned after its last
\* allowed GET, having slept on the way.
C16_Witness ==
    /\ fpc = "returned"
    /\ tries >= 2
    /\ gets = tries
    /\ sleeps # <<>>

\* C17: in a run of the command line every fetcher call is made with the
\* attempt count of --tries: its `tries` is args.tries, and against a server
\* that only fails retryably it issues exactly that many GETs.
C17_TriesFromCommandLine ==
    fpc # "idle" =>
        /\ tries = args_tries
        /\ (Finished /\ \A i \in 1..Len(outcomes) : IsRetryable(outcomes[i])) =>
               gets = args_tries

Ended == gen \in {"done", "failed"}

\* C12: an iteration started without max_pages ends: a caller that keeps
\* requesting batches sees it end after finitely many page fetches.
C12_UncappedEnds == (max_pages = None) ~> Ended

=============================================================================
